---- MODULE Spec2Model ----
(***************************************************************************)
(* Data-Wizards-Backend: the AQI computation engine (Models/models.py)     *)
(* and the /aqi/current request handler (main.py).                         *)
(*                                                                         *)
(* Numbers.  A Python float is modelled as an exact rational n/d or NaN:   *)
(* the record [nan, n, d].  Concentrations are sampled on the grid of      *)
(* 1/Scale ppb; column densities are whole multiples of 1e14 molecules/cm2 *)
(* so that the divisors 2e15 and 1e16 become 20 and 100.  On these grids   *)
(* the exact value rounded half-to-even equals what the double arithmetic  *)
(* of calculate_aqi followed by Python's round() yields.                   *)
(***************************************************************************)
EXTENDS Integers, Sequences, FiniteSets, TLC

\* ---------------------------------------------------------------- bounds
\* grid points per ppb for concentrations given directly in ppb
Scale == 10
\* how many ppb above a table's last concentration_high are still sampled
TopMargin == 2
\* the second sample of a pair lies 0..MaxGap grid steps above the first
MaxGap == 2
\* negative inputs sampled: -1 .. -MaxNeg grid steps
MaxNeg == 2

\* --------------------------------------------------------------- numbers
NaN == [nan |-> TRUE, n |-> 0, d |-> 1]
Rat(num, den) == [nan |-> FALSE, n |-> num, d |-> den]
Whole(v) == Rat(v, 1)
isnan(x) == x.nan

\* x < k, x <= k and k <= x for a non-NaN rational x and an integer k
LtInt(x, k) == x.n < k * x.d
LeInt(x, k) == x.n <= k * x.d
GeInt(x, k) == k * x.d <= x.n
\* x <= y for two non-NaN rationals
LeRat(x, y) == x.n * y.d <= y.n * x.d

\* Python 3 round(): the nearest integer, a tie going to the even one
\* (num >= 0, den > 0)
round(num, den) ==
    LET q == num \div den
        r == num % den
    IN  IF 2 * r < den THEN q
        ELSE IF 2 * r > den THEN q + 1
        ELSE IF q % 2 = 0 THEN q ELSE q + 1

\* ------------------------------------------------------ breakpoint tables
\* entries are <<bp_low, bp_high, aqi_low, aqi_high>>
NO2_BREAKPOINTS ==
    << <<0, 53, 0, 50>>,
       <<54, 100, 51, 100>>,
       <<101, 360, 101, 150>>,
       <<361, 649, 151, 200>>,
       <<650, 1249, 201, 300>>,
       <<1250, 2049, 301, 500>> >>

O3_BREAKPOINTS ==
    << <<0, 54, 0, 50>>,
       <<55, 70, 51, 100>>,
       <<71, 85, 101, 150>>,
       <<86, 105, 151, 200>>,
       <<106, 200, 201, 300>> >>

HCHO_BREAKPOINTS ==
    << <<0, 10, 0, 50>>,
       <<11, 30, 51, 100>>,
       <<31, 50, 101, 150>>,
       <<51, 80, 151, 200>>,
       <<81, 120, 201, 300>> >>

Pollutants == {"NO2", "O3", "HCHO"}

Breakpoints(p) ==
    IF p = "NO2" THEN NO2_BREAKPOINTS
    ELSE IF p = "O3" THEN O3_BREAKPOINTS
    ELSE HCHO_BREAKPOINTS

\* ---------------------------------------------------------- calculate_aqi
\* the loop of calculate_aqi: the index of the first entry, from i on, with
\* bp_low <= concentration <= bp_high; 0 when the loop runs off the table
RECURSIVE MatchFrom(_, _, _)
MatchFrom(concentration, breakpoints, i) ==
    IF i > Len(breakpoints) THEN 0
    ELSE IF GeInt(concentration, breakpoints[i][1])
            /\ LeInt(concentration, breakpoints[i][2])
         THEN i
         ELSE MatchFrom(concentration, breakpoints, i + 1)

\* mutant: the upper bound of a range is excluded
RECURSIVE MatchFromStrict(_, _, _)
MatchFromStrict(concentration, breakpoints, i) ==
    IF i > Len(breakpoints) THEN 0
    ELSE IF GeInt(concentration, breakpoints[i][1])
            /\ LtInt(concentration, breakpoints[i][2])
         THEN i
         ELSE MatchFromStrict(concentration, breakpoints, i + 1)

\* int(round(((aqi_high - aqi_low) / (bp_high - bp_low))
\*           * (concentration - bp_low) + aqi_low)) for one entry
Interpolate(concentration, bp) ==
    LET bp_low == bp[1]
        bp_high == bp[2]
        aqi_low == bp[3]
        aqi_high == bp[4]
        den == (bp_high - bp_low) * concentration.d
        num == (aqi_high - aqi_low) * (concentration.n - bp_low * concentration.d)
               + aqi_low * den
    IN  round(num, den)

\* mutant: past the table the last range is extrapolated instead of clamped
calculate_aqi_extrapolate(concentration, breakpoints) ==
    IF isnan(concentration) \/ LtInt(concentration, 0) THEN NaN
    ELSE LET i == MatchFrom(concentration, breakpoints, 1)
         IN  IF i # 0 THEN Whole(Interpolate(concentration, breakpoints[i]))
             ELSE Whole(Interpolate(concentration, breakpoints[Len(breakpoints)]))

\* mutant: the upper bound of every range is excluded from the range
calculate_aqi_strict(concentration, breakpoints) ==
    IF isnan(concentration) \/ LtInt(concentration, 0) THEN NaN
    ELSE LET i == MatchFromStrict(concentration, breakpoints, 1)
         IN  IF i # 0 THEN Whole(Interpolate(concentration, breakpoints[i]))
             ELSE Whole(breakpoints[Len(breakpoints)][4])

calculate_aqi(concentration, breakpoints) ==
    IF isnan(concentration) \/ LtInt(concentration, 0) THEN NaN
    ELSE LET i == MatchFrom(concentration, breakpoints, 1)
         IN  IF i # 0 THEN Whole(Interpolate(concentration, breakpoints[i]))
             ELSE Whole(breakpoints[Len(breakpoints)][4])

\* -------------------------------------------------------- unit conversion
\* 2e15 and 1e16 molecules/cm2, in the column unit of 1e14 molecules/cm2
NO2_DIVISOR == 20
HCHO_DIVISOR == 100

no2_column_to_ppb(column_density) ==
    IF isnan(column_density) THEN NaN
    ELSE Rat(column_density.n, column_density.d * NO2_DIVISOR)

\* mutant: HCHO converted with the NO2 divisor
hcho_column_to_ppb_as_no2(column_density) ==
    IF isnan(column_density) THEN NaN
    ELSE Rat(column_density.n, column_density.d * NO2_DIVISOR)

hcho_column_to_ppb(column_density) ==
    IF isnan(column_density) THEN NaN
    ELSE Rat(column_density.n, column_density.d * HCHO_DIVISOR)

get_no2_aqi(no2_col) == calculate_aqi(no2_column_to_ppb(no2_col), NO2_BREAKPOINTS)

get_o3_aqi(ppb) == calculate_aqi(ppb, O3_BREAKPOINTS)

get_hcho_aqi(hcho_col) == calculate_aqi(hcho_column_to_ppb(hcho_col), HCHO_BREAKPOINTS)

\* ------------------------------------------------------- get_combined_aqi
\* the dict aqis in insertion order: a sequence of <<pollutant, sub-index>>;
\* aqis[name] = aqi is executed only when aqi is not NaN
SetItem(aqis, name, aqi) ==
    IF ~isnan(aqi) THEN Append(aqis, <<name, aqi.n>>) ELSE aqis

\* mutant: a NaN sub-index is stored as 0 instead of being left out
SubIndicesZeroDefault(no2_col, hcho_col, ppb) ==
    LET z(a) == IF isnan(a) THEN Whole(0) ELSE a
    IN  SetItem(SetItem(SetItem(<< >>, "NO2", z(get_no2_aqi(no2_col))),
                        "HCHO", z(get_hcho_aqi(hcho_col))),
                "O3", z(get_o3_aqi(ppb)))

SubIndices(no2_col, hcho_col, ppb) ==
    SetItem(SetItem(SetItem(<< >>, "NO2", get_no2_aqi(no2_col)),
                    "HCHO", get_hcho_aqi(hcho_col)),
            "O3", get_o3_aqi(ppb))

\* max(aqis.values())
MaxValue(aqis) ==
    CHOOSE v \in {aqis[i][2] : i \in 1..Len(aqis)} :
        \A j \in 1..Len(aqis) : aqis[j][2] <= v

\* mutant: the last key holding the maximum wins a tie
MaxKeyLast(aqis) ==
    LET i == CHOOSE k \in 1..Len(aqis) :
                 /\ \A j \in 1..Len(aqis) : aqis[j][2] <= aqis[k][2]
                 /\ \A j \in (k + 1)..Len(aqis) : aqis[j][2] < aqis[k][2]
    IN  aqis[i][1]

\* mutant: the key of the smallest sub-index is reported
MaxKeyOfMin(aqis) ==
    LET i == CHOOSE k \in 1..Len(aqis) :
                 /\ \A j \in 1..Len(aqis) : aqis[k][2] <= aqis[j][2]
                 /\ \A j \in 1..(k - 1) : aqis[k][2] < aqis[j][2]
    IN  aqis[i][1]

\* max(aqis, key=aqis.get): iteration is in insertion order and max keeps
\* the first key whose value is maximal
MaxKey(aqis) ==
    LET i == CHOOSE k \in 1..Len(aqis) :
                 /\ \A j \in 1..Len(aqis) : aqis[j][2] <= aqis[k][2]
                 /\ \A j \in 1..(k - 1) : aqis[j][2] < aqis[k][2]
    IN  aqis[i][1]

\* the pair (overall, dominant); Python's None is the string "None"
get_combined_aqi(no2_col, hcho_col, ppb) ==
    LET aqis == SubIndices(no2_col, hcho_col, ppb)
    IN  IF Len(aqis) = 0 THEN [overall |-> NaN, dominant |-> "None"]
        ELSE [overall |-> Whole(MaxValue(aqis)), dominant |-> MaxKey(aqis)]

\* -------------------------------------------------------- aqi_to_category
Category(num, name, text) == [number |-> num, name |-> name, recommendation |-> text]

\* mutant: the thresholds are exclusive (aqi < 50, aqi < 100, ...)
aqi_to_category_exclusive(aqi) ==
    IF isnan(aqi) THEN Category(NaN, "Unknown", "No data available")
    ELSE IF LtInt(aqi, 50) THEN
        Category(Whole(0), "Good",
                 "Air quality is satisfactory, and air pollution poses little or no risk.")
    ELSE IF LtInt(aqi, 100) THEN
        Category(Whole(1), "Moderate",
                 "Air quality is acceptable. However, there may be a risk for some people.")
    ELSE IF LtInt(aqi, 150) THEN
        Category(Whole(2), "Unhealthy for Sensitive Groups",
                 "Members of sensitive groups may experience health effects.")
    ELSE IF LtInt(aqi, 200) THEN
        Category(Whole(3), "Unhealthy",
                 "Some members of the general public may experience health effects.")
    ELSE IF LtInt(aqi, 300) THEN
        Category(Whole(4), "Very Unhealthy",
                 "Health alert: The risk of health effects is increased for everyone.")
    ELSE
        Category(Whole(5), "Hazardous",
                 "Health warning of emergency conditions: everyone is more likely to be affected.")

aqi_to_category(aqi) ==
    IF isnan(aqi) THEN Category(NaN, "Unknown", "No data available")
    ELSE IF LeInt(aqi, 50) THEN
        Category(Whole(0), "Good",
                 "Air quality is satisfactory, and air pollution poses little or no risk.")
    ELSE IF LeInt(aqi, 100) THEN
        Category(Whole(1), "Moderate",
                 "Air quality is acceptable. However, there may be a risk for some people.")
    ELSE IF LeInt(aqi, 150) THEN
        Category(Whole(2), "Unhealthy for Sensitive Groups",
                 "Members of sensitive groups may experience health effects.")
    ELSE IF LeInt(aqi, 200) THEN
        Category(Whole(3), "Unhealthy",
                 "Some members of the general public may experience health effects.")
    ELSE IF LeInt(aqi, 300) THEN
        Category(Whole(4), "Very Unhealthy",
                 "Health alert: The risk of health effects is increased for everyone.")
    ELSE
        Category(Whole(5), "Hazardous",
                 "Health warning of emergency conditions: everyone is more likely to be affected.")

\* ------------------------------------------------------------------ state
VARIABLES
    \* calculate_aqi applied to a pair of samples of one table
    calc_pc,        \* "idle", "input" or "done"
    bp_name,        \* the pollutant whose table is used
    conc,           \* the concentration passed to calculate_aqi
    conc_next,      \* a second concentration, not below conc
    aqi,            \* calculate_aqi(conc, table)
    aqi_next,       \* calculate_aqi(conc_next, table)
    matched,        \* index of the entry whose range held conc; 0: fell through
    \* get_current_aqi and what it calls
    pc,             \* position in the handler
    no2_ds, o3_ds, hcho_ds,             \* results of fetch_satellite_data
    no2_column, o3_ppb, hcho_column,    \* the three measurements
    pollutant_data, \* the dict filled by the handler
    aqis,           \* the dict built inside get_combined_aqi
    overall_aqi, dominant,              \* the pair get_combined_aqi returns
    category,       \* what aqi_to_category returns
    response,       \* what the client receives
    \* one call of fetch_satellite_data
    fetch_pc,       \* "idle", "submit", "poll", "results", "open" or "returned"
    polls,          \* calls of client.status made so far
    job_status,     \* the status the last poll reported; "none" before any
    results,        \* what client.result_urls gave: "none", "empty" or "urls"
    opened,         \* TRUE once xr.open_dataset was called
    raised,         \* TRUE once the except branch was taken
    fetched         \* the value returned; NoDataset is None

calcVars == <<calc_pc, bp_name, conc, conc_next, aqi, aqi_next, matched>>
fetchVars == <<no2_ds, o3_ds, hcho_ds>>
inputVars == <<no2_column, o3_ppb, hcho_column>>
combVars == <<aqis, overall_aqi, dominant>>
reqVars == <<pc, fetchVars, inputVars, pollutant_data, combVars, category, response>>
pollVars == <<fetch_pc, polls, job_status, results, opened, raised, fetched>>
vars == <<calcVars, pollVars, reqVars>>

\* Python's None among numbers: the record with denominator 0
None == [nan |-> FALSE, n |-> 0, d |-> 0]

NoDataset == [present |-> FALSE, found |-> FALSE, value |-> NaN]
NoCategory == Category(NaN, "", "")

Fields == {"NO2_column", "NO2_ppb", "NO2_aqi", "O3_ppb", "O3_aqi",
           "HCHO_column", "HCHO_ppb", "HCHO_aqi"}
IntFields == {"NO2_aqi", "O3_aqi", "HCHO_aqi"}

\* PollutantData(**d): a field that is not given keeps its default None
PollutantData(d) == [f \in Fields |-> IF f \in DOMAIN d THEN d[f] ELSE None]

\* pydantic validation of PollutantData: an Optional[int] field takes an int
\* or None, and NaN is neither; an Optional[float] field takes any float
PollutantDataValid(d) == \A f \in IntFields \cap DOMAIN d : ~isnan(d[f])

NoResponse ==
    [status |-> "none", code |-> 0, detail |-> "", aqi |-> 0, category |-> "",
     category_number |-> 0, pollutants |-> PollutantData(<< >>),
     health_recommendation |-> "", dominant_pollutant |-> ""]

\* raise HTTPException(status_code=code, detail=detail)
HTTPException(code, detail) ==
    [NoResponse EXCEPT !.status = "error", !.code = code, !.detail = detail]

InitPollIdle ==
    /\ fetch_pc = "idle"
    /\ polls = 0
    /\ job_status = "none"
    /\ results = "none"
    /\ opened = FALSE
    /\ raised = FALSE
    /\ fetched = NoDataset

InitCalcIdle ==
    /\ calc_pc = "idle"
    /\ bp_name = "NO2"
    /\ conc = NaN
    /\ conc_next = NaN
    /\ aqi = NaN
    /\ aqi_next = NaN
    /\ matched = 0

InitReqIdle ==
    /\ pc = "idle"
    /\ no2_ds = NoDataset
    /\ o3_ds = NoDataset
    /\ hcho_ds = NoDataset
    /\ no2_column = NaN
    /\ o3_ppb = NaN
    /\ hcho_column = NaN
    /\ pollutant_data = << >>
    /\ aqis = << >>
    /\ overall_aqi = NaN
    /\ dominant = "None"
    /\ category = NoCategory
    /\ response = NoResponse

\* ------------------------------------------- calculate_aqi on sample pairs
\* a sample far above every table
FarAbove == 5000

Top(p) == Breakpoints(p)[Len(Breakpoints(p))][2]

Grid(p) == {Rat(k, Scale) : k \in 0..((Top(p) + TopMargin) * Scale)}

CalcInputs(p) ==
    Grid(p) \cup {Whole(FarAbove), NaN} \cup {Rat(0 - k, Scale) : k \in 1..MaxNeg}

InitCalc ==
    /\ InitReqIdle
    /\ InitPollIdle
    /\ calc_pc = "input"
    /\ bp_name \in Pollutants
    /\ conc \in CalcInputs(bp_name)
    /\ \E g \in 0..MaxGap :
          conc_next = IF isnan(conc) THEN NaN ELSE Rat(conc.n + g, conc.d)
    /\ aqi = NaN
    /\ aqi_next = NaN
    /\ matched = 0

\* calculate_aqi(conc, table) and calculate_aqi(conc_next, table)
CalculateAqi ==
    /\ calc_pc = "input"
    /\ aqi' = calculate_aqi(conc, Breakpoints(bp_name))
    /\ aqi_next' = calculate_aqi(conc_next, Breakpoints(bp_name))
    /\ matched' = IF isnan(conc) \/ LtInt(conc, 0) THEN 0
                  ELSE MatchFrom(conc, Breakpoints(bp_name), 1)
    /\ calc_pc' = "done"
    /\ UNCHANGED <<bp_name, conc, conc_next, pollVars, reqVars>>

NextCalc == CalculateAqi

SpecCalc == InitCalc /\ [][NextCalc]_vars

\* --------------------------------- get_combined_aqi and aqi_to_category
\* column step of the sweeps, in 1e14 molecules/cm2
ColStep == 10

\* a few values per pollutant: missing, negative, and two valid ones
SmallNO2 == {NaN, Whole(0 - 20), Whole(1060), Whole(1620)}
SmallHCHO == {NaN, Whole(0 - 100), Whole(800), Whole(3000)}
SmallO3 == {NaN, Rat(0 - 1, 10), Whole(70), Rat(764, 10)}

\* one pollutant sweeps its whole table, in columns or in ppb
SweepNO2 ==
    {Whole(k * ColStep) :
        k \in 0..(((Top("NO2") + TopMargin) * NO2_DIVISOR) \div ColStep)}
SweepHCHO ==
    {Whole(k * ColStep) :
        k \in 0..(((Top("HCHO") + TopMargin) * HCHO_DIVISOR) \div ColStep)}
SweepO3 == Grid("O3")

\* triples <<no2_col, hcho_col, o3_ppb>>
CombineInputs ==
    (SweepNO2 \X SmallHCHO \X SmallO3)
        \cup (SmallNO2 \X SweepHCHO \X SmallO3)
        \cup (SmallNO2 \X SmallHCHO \X SweepO3)

InitCombined ==
    /\ InitCalcIdle
    /\ InitPollIdle
    /\ pc = "combine"
    /\ no2_ds = NoDataset
    /\ o3_ds = NoDataset
    /\ hcho_ds = NoDataset
    /\ \E t \in CombineInputs :
          /\ no2_column = t[1]
          /\ hcho_column = t[2]
          /\ o3_ppb = t[3]
    /\ pollutant_data = << >>
    /\ aqis = << >>
    /\ overall_aqi = NaN
    /\ dominant = "None"
    /\ category = NoCategory
    /\ response = NoResponse

\* overall_aqi, dominant = get_combined_aqi(no2_column, hcho_column, o3_ppb)
GetCombinedAqi ==
    /\ pc = "combine"
    /\ LET r == get_combined_aqi(no2_column, hcho_column, o3_ppb)
       IN  /\ overall_aqi' = r.overall
           /\ dominant' = r.dominant
    /\ aqis' = SubIndices(no2_column, hcho_column, o3_ppb)
    /\ pc' = "respond"
    /\ UNCHANGED <<calcVars, pollVars, fetchVars, inputVars, pollutant_data, category, response>>

\* aqi_to_category(overall_aqi)
AqiToCategory ==
    /\ pc = "respond"
    /\ category' = aqi_to_category(overall_aqi)
    /\ pc' = "categorized"
    /\ UNCHANGED <<calcVars, pollVars, fetchVars, inputVars, pollutant_data, combVars, response>>

NextCombined == GetCombinedAqi \/ AqiToCategory

SpecCombined == InitCombined /\ [][NextCombined]_vars

\* -------------------------------------------------------- get_current_aqi
\* what a fetched dataset yields at the location: the value of the variable,
\* or no such variable
Dataset(v) == [present |-> TRUE, found |-> TRUE, value |-> v]
DatasetWithoutVariable == [present |-> TRUE, found |-> FALSE, value |-> NaN]

SatNO2 == {NaN, Whole(0 - 20), Whole(1060), Whole(1070), Whole(1620)}
SatO3 == {NaN, Rat(0 - 1, 10), Whole(70), Rat(545, 10), Rat(764, 10)}
SatHCHO == {NaN, Whole(0 - 100), Whole(800), Whole(1050), Whole(3000)}

\* samples of np.random.uniform(1e15, 5e15), (30, 70) and (1e15, 3e16)
MockNO2 == {Whole(10), Whole(30), Whole(49)}
MockO3 == {Whole(30), Whole(50), Rat(699, 10)}
MockHCHO == {Whole(10), Whole(150), Whole(299)}

\* fetch_satellite_data: a dataset, or None after an error, a job that did
\* not finish, or an empty result list
fetch_satellite_data(values) ==
    {Dataset(v) : v \in values} \cup {DatasetWithoutVariable, NoDataset}

extract_pollutant_at_location(ds) == IF ds.found THEN ds.value ELSE NaN

Init ==
    /\ InitCalcIdle
    /\ InitPollIdle
    /\ InitReqIdle

\* a request for /aqi/current with valid coordinates arrives
ReceiveRequest ==
    /\ pc = "idle"
    /\ pc' = "fetch_no2"
    /\ UNCHANGED <<calcVars, pollVars, fetchVars, inputVars, pollutant_data, combVars,
                   category, response>>

FetchNO2 ==
    /\ pc = "fetch_no2"
    /\ \E ds \in fetch_satellite_data(SatNO2) :
          /\ no2_ds' = ds
          /\ IF ds.present
             THEN no2_column' = extract_pollutant_at_location(ds)
             ELSE no2_column' \in MockNO2
    /\ pollutant_data' = pollutant_data
          @@ ("NO2_column" :> no2_column'
              @@ "NO2_ppb" :> no2_column_to_ppb(no2_column')
              @@ "NO2_aqi" :> get_no2_aqi(no2_column'))
    /\ pc' = "fetch_o3"
    /\ UNCHANGED <<calcVars, pollVars, o3_ds, hcho_ds, o3_ppb, hcho_column, combVars,
                   category, response>>

FetchO3 ==
    /\ pc = "fetch_o3"
    /\ \E ds \in fetch_satellite_data(SatO3) :
          /\ o3_ds' = ds
          /\ IF ds.present
             THEN o3_ppb' = extract_pollutant_at_location(ds)
             ELSE o3_ppb' \in MockO3
    /\ pollutant_data' = pollutant_data
          @@ ("O3_ppb" :> o3_ppb' @@ "O3_aqi" :> get_o3_aqi(o3_ppb'))
    /\ pc' = "fetch_hcho"
    /\ UNCHANGED <<calcVars, pollVars, no2_ds, hcho_ds, no2_column, hcho_column, combVars,
                   category, response>>

FetchHCHO ==
    /\ pc = "fetch_hcho"
    /\ \E ds \in fetch_satellite_data(SatHCHO) :
          /\ hcho_ds' = ds
          /\ IF ds.present
             THEN hcho_column' = extract_pollutant_at_location(ds)
             ELSE hcho_column' \in MockHCHO
    /\ pollutant_data' = pollutant_data
          @@ ("HCHO_column" :> hcho_column'
              @@ "HCHO_ppb" :> hcho_column_to_ppb(hcho_column')
              @@ "HCHO_aqi" :> get_hcho_aqi(hcho_column'))
    /\ pc' = "combine"
    /\ UNCHANGED <<calcVars, pollVars, no2_ds, o3_ds, no2_column, o3_ppb, combVars,
                   category, response>>

AQIResponse(overall, cat, data, dom) ==
    [status |-> "ok", code |-> 200, detail |-> "",
     aqi |-> overall.n,
     category |-> cat.name,
     category_number |-> cat.number.n,
     pollutants |-> PollutantData(data),
     health_recommendation |-> cat.recommendation,
     dominant_pollutant |-> IF dom # "None" THEN dom ELSE "Unknown"]

\* lines 159-187: the NaN check, aqi_to_category, and the response; a
\* ValidationError raised while the response is built is caught by
\* "except Exception" and becomes a 500
Respond ==
    /\ pc = "respond"
    /\ IF isnan(overall_aqi)
       THEN /\ response' = HTTPException(500, "Unable to calculate AQI - no valid data")
            /\ UNCHANGED category
       ELSE /\ category' = aqi_to_category(overall_aqi)
            /\ response' =
                  IF PollutantDataValid(pollutant_data)
                  THEN AQIResponse(overall_aqi, category', pollutant_data, dominant)
                  ELSE HTTPException(500, "ValidationError")
    /\ pc' = "done"
    /\ UNCHANGED <<calcVars, pollVars, fetchVars, inputVars, pollutant_data, combVars>>

Next ==
    \/ ReceiveRequest
    \/ FetchNO2
    \/ FetchO3
    \/ FetchHCHO
    \/ GetCombinedAqi
    \/ Respond

Spec == Init /\ [][Next]_vars

\* --------------------------------------------------- fetch_satellite_data
\* for _ in range(30)
MaxPolls == 30

\* what client.status(job_id).get('status') may be
JobStatuses == {"running", "failed", "successful"}

\* the datasets xr.open_dataset may yield
OpenedDatasets == {Dataset(v) : v \in SatNO2} \cup {DatasetWithoutVariable}

InitFetch ==
    /\ InitCalcIdle
    /\ InitReqIdle
    /\ fetch_pc = "submit"
    /\ polls = 0
    /\ job_status = "none"
    /\ results = "none"
    /\ opened = FALSE
    /\ raised = FALSE
    /\ fetched = NoDataset

\* except Exception: print(...); return None
ReturnNoneOnError ==
    /\ raised' = TRUE
    /\ fetched' = NoDataset
    /\ fetch_pc' = "returned"

\* job_id = client.submit(request)
Submit ==
    /\ fetch_pc = "submit"
    /\ \/ /\ fetch_pc' = "poll"
          /\ UNCHANGED <<raised, fetched>>
       \/ ReturnNoneOnError
    /\ UNCHANGED <<calcVars, reqVars, polls, job_status, results, opened>>

\* one pass of the loop: sleep, client.status, break on 'successful'; the
\* loop is left after the pass that reports 'successful' or after pass 30
Poll ==
    /\ fetch_pc = "poll"
    /\ polls < MaxPolls
    /\ polls' = polls + 1
    /\ \/ \E st \in JobStatuses :
             /\ job_status' = st
             /\ fetch_pc' = IF st = "successful" \/ polls' = MaxPolls
                            THEN "results" ELSE "poll"
             /\ UNCHANGED <<raised, fetched>>
       \/ /\ ReturnNoneOnError
          /\ UNCHANGED job_status
    /\ UNCHANGED <<calcVars, reqVars, results, opened>>

\* results = client.result_urls(job_id); if results: ...; return None
ResultUrls ==
    /\ fetch_pc = "results"
    /\ \/ /\ results' = "urls"
          /\ fetch_pc' = "open"
          /\ UNCHANGED <<raised, fetched>>
       \/ /\ results' = "empty"
          /\ fetched' = NoDataset
          /\ fetch_pc' = "returned"
          /\ UNCHANGED raised
       \/ /\ results' = "raised"
          /\ ReturnNoneOnError
    /\ UNCHANGED <<calcVars, reqVars, polls, job_status, opened>>

\* ds = xr.open_dataset(results[0]); return ds
OpenDataset ==
    /\ fetch_pc = "open"
    /\ opened' = TRUE
    /\ \/ /\ fetched' \in OpenedDatasets
          /\ fetch_pc' = "returned"
          /\ UNCHANGED raised
       \/ ReturnNoneOnError
    /\ UNCHANGED <<calcVars, reqVars, polls, job_status, results>>

NextFetch == Submit \/ Poll \/ ResultUrls \/ OpenDataset

SpecFetch == InitFetch /\ [][NextFetch]_vars

\* ---------------------------------------------------- claims C1 .. C4
EqInt(x, k) == x.n = k * x.d
GtInt(x, k) == x.n > k * x.d

\* the input of a finished calculation is a number that is not negative
CalcDoneValid == calc_pc = "done" /\ ~isnan(conc) /\ GeInt(conc, 0)

\* the entries of a table whose range holds x
Holding(x, breakpoints) ==
    {i \in 1..Len(breakpoints) :
        GeInt(x, breakpoints[i][1]) /\ LeInt(x, breakpoints[i][2])}

LastIndexHigh(p) == Breakpoints(p)[Len(Breakpoints(p))][4]

\* C1: calculate_aqi is monotonically non-decreasing in the concentration:
\* for samples 0 <= conc <= conc_next of one table, fractional ones
\* included, calculate_aqi(conc) <= calculate_aqi(conc_next).
C1_Monotone ==
    CalcDoneValid => (LeRat(conc, conc_next) => aqi.n <= aqi_next.n)

\* C2: every table is sorted, non-overlapping and contiguous, so that every
\* concentration from 0 to the last concentration_high lies in the range of
\* exactly one entry, and calculate_aqi falls through its loop only for a
\* concentration above every entry's upper bound.
C2_ContiguousCover ==
    CalcDoneValid =>
        LET bps == Breakpoints(bp_name)
        IN  /\ \A i \in 1..(Len(bps) - 1) : bps[i][2] < bps[i + 1][1]
            /\ LeInt(conc, Top(bp_name)) => Cardinality(Holding(conc, bps)) = 1
            /\ matched = 0 => \A i \in 1..Len(bps) : GtInt(conc, bps[i][2])

\* C3: at the lower and the upper bound of every entry calculate_aqi returns
\* exactly that entry's index_low and index_high, and the entry used is the
\* first one in table order whose range holds the concentration.
C3_BoundaryExact ==
    CalcDoneValid =>
        LET bps == Breakpoints(bp_name)
        IN  /\ \A i \in 1..Len(bps) :
                  /\ EqInt(conc, bps[i][1]) => aqi = Whole(bps[i][3]) /\ matched = i
                  /\ EqInt(conc, bps[i][2]) => aqi = Whole(bps[i][4]) /\ matched = i
            /\ matched # 0 =>
                  /\ matched \in Holding(conc, bps)
                  /\ \A j \in Holding(conc, bps) : matched <= j
                  /\ aqi = Whole(Interpolate(conc, bps[matched]))

\* NO2 at 54 ppb gives 51
C3_Witness ==
    /\ calc_pc = "done"
    /\ bp_name = "NO2"
    /\ ~isnan(conc) /\ EqInt(conc, 54)
    /\ aqi = Whole(51)
    /\ matched = 2

\* C4: for a concentration that is a number and not negative calculate_aqi
\* returns an integer from 0 to the table's last index_high (500 for NO2,
\* 300 for O3 and HCHO); above the table's last concentration_high it
\* returns exactly that last index_high.
C4_Saturates ==
    CalcDoneValid =>
        LET last == IF bp_name = "NO2" THEN 500 ELSE 300
        IN  /\ last = LastIndexHigh(bp_name)
            /\ ~isnan(aqi) /\ aqi.d = 1
            /\ 0 <= aqi.n /\ aqi.n <= last
            /\ GtInt(conc, Top(bp_name)) => aqi = Whole(last)

\* NO2 at 5000 ppb gives 500
C4_Witness ==
    /\ calc_pc = "done"
    /\ bp_name = "NO2"
    /\ conc = Whole(FarAbove)
    /\ aqi = Whole(500)

\* ---------------------------------------------------- claims C5 .. C10
\* the measurement of pollutant p held by the handler, and its dataset
Input(p) ==
    IF p = "NO2" THEN no2_column ELSE IF p = "O3" THEN o3_ppb ELSE hcho_column
DatasetOf(p) ==
    IF p = "NO2" THEN no2_ds ELSE IF p = "O3" THEN o3_ds ELSE hcho_ds

\* missing or negative; a column is negative exactly when its ppb value is
Excluded(x) == isnan(x) \/ LtInt(x, 0)

\* the sub-index of p for the measurements held
SubIndex(p) ==
    IF p = "NO2" THEN get_no2_aqi(no2_column)
    ELSE IF p = "O3" THEN get_o3_aqi(o3_ppb)
    ELSE get_hcho_aqi(hcho_column)

ValidPollutants == {p \in Pollutants : ~Excluded(Input(p))}
Keys(d) == {d[i][1] : i \in 1..Len(d)}
Combined == pc \in {"respond", "categorized", "done"}
IsMax(m) ==
    /\ \E p \in ValidPollutants : SubIndex(p).n = m
    /\ \A p \in ValidPollutants : SubIndex(p).n <= m

\* C5: a pollutant whose input is missing or negative gets no entry in the
\* sub-index mapping; with all three excluded get_combined_aqi returns
\* (NaN, None) and get_current_aqi answers with the failure 'Unable to
\* calculate AQI - no valid data', never with a successful response.
C5_NoValidData ==
    /\ Combined =>
          /\ \A p \in Pollutants : Excluded(Input(p)) => p \notin Keys(aqis)
          /\ ValidPollutants = {} => isnan(overall_aqi) /\ dominant = "None"
    /\ (pc = "done" /\ ValidPollutants = {}) =>
          /\ response = HTTPException(500, "Unable to calculate AQI - no valid data")
          /\ response.status # "ok"

\* all three datasets were fetched and none gave a usable value
C5_Witness ==
    /\ pc = "done"
    /\ isnan(no2_column)
    /\ ~isnan(o3_ppb) /\ LtInt(o3_ppb, 0)
    /\ hcho_ds = DatasetWithoutVariable
    /\ aqis = << >>
    /\ response.status = "error"
    /\ response.detail = "Unable to calculate AQI - no valid data"

\* C6: with at least one valid sub-index, get_combined_aqi returns the
\* maximum of the valid sub-indices and a dominant pollutant that is valid
\* and whose own sub-index is that maximum.
C6_MaxAndDominant ==
    (Combined /\ ValidPollutants # {}) =>
        /\ ~isnan(overall_aqi)
        /\ IsMax(overall_aqi.n)
        /\ dominant \in ValidPollutants
        /\ SubIndex(dominant).n = overall_aqi.n

\* sub-indices NO2 = 80, O3 = 120, HCHO = 40 give 120 and "O3"
C6_Witness ==
    /\ pc = "respond"
    /\ aqis = << <<"NO2", 80>>, <<"HCHO", 40>>, <<"O3", 120>> >>
    /\ overall_aqi = Whole(120)
    /\ dominant = "O3"

CategoryNames ==
    <<"Good", "Moderate", "Unhealthy for Sensitive Groups", "Unhealthy",
      "Very Unhealthy", "Hazardous">>

\* C7: aqi_to_category maps an AQI a returned by get_combined_aqi to 0 iff
\* a <= 50, 1 iff 51..100, 2 iff 101..150, 3 iff 151..200, 4 iff 201..300 and
\* 5 iff a >= 301, with the fixed label of that number; a missing AQI maps to
\* (NaN, "Unknown", "No data available").
C7_Thresholds ==
    pc = "categorized" =>
        IF isnan(overall_aqi)
        THEN category = Category(NaN, "Unknown", "No data available")
        ELSE LET a == overall_aqi.n
                 k == category.number.n
             IN  /\ a \in 0..500
                 /\ ~isnan(category.number) /\ category.number.d = 1
                 /\ k \in 0..5
                 /\ k = 0 <=> a <= 50
                 /\ k = 1 <=> (51 <= a /\ a <= 100)
                 /\ k = 2 <=> (101 <= a /\ a <= 150)
                 /\ k = 3 <=> (151 <= a /\ a <= 200)
                 /\ k = 4 <=> (201 <= a /\ a <= 300)
                 /\ k = 5 <=> a >= 301
                 /\ category.name = CategoryNames[k + 1]

\* 51 is the first Moderate value
C7_Witness ==
    /\ pc = "categorized"
    /\ overall_aqi = Whole(51)
    /\ category.number = Whole(1)
    /\ category.name = "Moderate"

\* C8: the NO2 sub-index is calculate_aqi(column / 2e15, NO2 table), the HCHO
\* sub-index is calculate_aqi(column / 1e16, HCHO table), the O3 sub-index is
\* calculate_aqi of the ppb input as given; conversion keeps a missing column
\* missing and a negative column negative.  NO2 column 1.06e17 is 53 ppb and
\* gives 50, O3 70 ppb gives 100, HCHO column 3e17 is 30 ppb and gives 100:
\* overall 100, dominant O3 or HCHO, category 1 Moderate.
C8_Conversion ==
    Combined =>
        LET no2_ppb == IF isnan(no2_column) THEN NaN
                       ELSE Rat(no2_column.n, no2_column.d * 20)
            hcho_ppb == IF isnan(hcho_column) THEN NaN
                        ELSE Rat(hcho_column.n, hcho_column.d * 100)
            no2 == calculate_aqi(no2_ppb, NO2_BREAKPOINTS)
            hcho == calculate_aqi(hcho_ppb, HCHO_BREAKPOINTS)
            o3 == calculate_aqi(o3_ppb, O3_BREAKPOINTS)
        IN  /\ aqis = SetItem(SetItem(SetItem(<< >>, "NO2", no2), "HCHO", hcho), "O3", o3)
            /\ no2_column_to_ppb(no2_column) = no2_ppb
            /\ hcho_column_to_ppb(hcho_column) = hcho_ppb
            /\ isnan(no2_column) <=> isnan(no2_ppb)
            /\ isnan(hcho_column) <=> isnan(hcho_ppb)
            /\ ~isnan(no2_column) => (LtInt(no2_column, 0) <=> LtInt(no2_ppb, 0))
            /\ ~isnan(hcho_column) => (LtInt(hcho_column, 0) <=> LtInt(hcho_ppb, 0))
            /\ (no2_column = Whole(1060) /\ o3_ppb = Whole(70) /\ hcho_column = Whole(3000)) =>
                  /\ EqInt(no2_ppb, 53) /\ EqInt(hcho_ppb, 30)
                  /\ aqis = << <<"NO2", 50>>, <<"HCHO", 100>>, <<"O3", 100>> >>
                  /\ overall_aqi = Whole(100)
                  /\ dominant \in {"O3", "HCHO"}
                  /\ pc = "categorized" =>
                        category.number = Whole(1) /\ category.name = "Moderate"

\* the scenario of the three measurements, categorized
C8_Witness ==
    /\ pc = "categorized"
    /\ no2_column = Whole(1060)
    /\ o3_ppb = Whole(70)
    /\ hcho_column = Whole(3000)
    /\ overall_aqi = Whole(100)
    /\ category.name = "Moderate"

\* C9: the dominant pollutant is a function of the input triple alone: when
\* several pollutants hold the maximum sub-index, it is the first of them in
\* the order NO2, HCHO, O3 in which the mapping is filled.
C9_TieBreak ==
    (Combined /\ ValidPollutants # {}) =>
        LET holds(p) == p \in ValidPollutants /\ SubIndex(p).n = overall_aqi.n
        IN  dominant = IF holds("NO2") THEN "NO2"
                       ELSE IF holds("HCHO") THEN "HCHO"
                       ELSE "O3"

\* all three pollutants tie at 100
C9_Witness ==
    /\ pc = "respond"
    /\ aqis = << <<"NO2", 100>>, <<"HCHO", 100>>, <<"O3", 100>> >>
    /\ dominant = "NO2"

\* a dataset was fetched for p and the value extracted from it is unusable
SatelliteUnavailable(p) == DatasetOf(p).present /\ Excluded(Input(p))

AqiField(p) ==
    IF p = "NO2" THEN "NO2_aqi" ELSE IF p = "O3" THEN "O3_aqi" ELSE "HCHO_aqi"

\* C10: when the value extracted for one or two pollutants is missing or
\* negative and another pollutant has a valid sub-index, get_current_aqi
\* answers with a successful AQIResponse whose aqi is the maximum of the
\* valid sub-indices and whose breakdown gives null for the sub-index of
\* every unavailable pollutant.
C10_PartialDataSucceeds ==
    (/\ pc = "done"
     /\ \E p \in Pollutants : SatelliteUnavailable(p)
     /\ ValidPollutants # {}) =>
        /\ response.status = "ok"
        /\ IsMax(response.aqi)
        /\ \A p \in Pollutants :
              SatelliteUnavailable(p) => response.pollutants[AqiField(p)] = None

\* ------------------------------------------------------------ claim C11
\* C11: fetch_satellite_data polls the job status at most 30 times and stops
\* polling at the first 'successful' status; it requests the result URLs and
\* opens a dataset only after a poll has reported 'successful'; it returns
\* None when no poll reported 'successful' or when a client call raised.
C11_PollTimeout ==
    /\ polls <= 30
    /\ job_status = "successful" => fetch_pc # "poll"
    /\ results # "none" => job_status = "successful"
    /\ opened => job_status = "successful"
    /\ (fetch_pc = "returned" /\ (job_status # "successful" \/ raised)) =>
          fetched = NoDataset

====
